---- MODULE Spec2Model ----
(***************************************************************************)
(* Supertris (ultimate tic-tac-toe): the board model of src/src/game.rs    *)
(* and the search of src/src/game/searcher.rs.                             *)
(***************************************************************************)
EXTENDS Integers, Sequences, FiniteSets, TLC

(* ------------------------------------------------------------------ *)
(* Values                                                              *)
(* ------------------------------------------------------------------ *)

\* Option::None of Option<Mark>
None == "None"

\* enum Mark { X, O }
Mark == {"X", "O"}

\* impl Not for Mark
Not(m) == IF m = "X" THEN "O" ELSE "X"

\* Option::None of Option<(u8, u8)>; Some((r, c)) is <<r, c>>
NoSquare == <<>>

\* the indices of a [[_; 3]; 3] array
Idx == 0 .. 2

\* all (row, col) pairs of a 3x3 grid
Squares == {<<r, c>> : r \in Idx, c \in Idx}

\* InnerBoard::default(): every cell empty, no winner
EmptyInner == [squares |-> [r \in Idx |-> [c \in Idx |-> None]], winner |-> None]

\* OuterBoard::default()
EmptyOuter ==
  [boards |-> [r \in Idx |-> [c \in Idx |-> EmptyInner]],
   overall_winner |-> None,
   active_square |-> NoSquare]

(* ------------------------------------------------------------------ *)
(* InnerBoard (src/src/game.rs)                                        *)
(* ------------------------------------------------------------------ *)

\* row_line with the third cell of the row left unchecked
row_line_two_cells(sq, row) ==
  /\ sq[row][0] # None
  /\ sq[row][1] = sq[row][0]

\* the row test of update_winner: squares[row][0] is Some(player) and the
\* other two cells of the row equal Some(player)
row_line(sq, row) ==
  /\ sq[row][0] # None
  /\ sq[row][1] = sq[row][0]
  /\ sq[row][2] = sq[row][0]

\* the column test of update_winner
col_line(sq, col) ==
  /\ sq[0][col] # None
  /\ sq[1][col] = sq[0][col]
  /\ sq[2][col] = sq[0][col]

\* the diagonal test of update_winner, keyed on the centre cell
diag_line(sq) ==
  /\ sq[1][1] # None
  /\ \/ (sq[0][0] = sq[1][1] /\ sq[2][2] = sq[1][1])
     \/ (sq[0][2] = sq[1][1] /\ sq[2][0] = sq[1][1])

\* the winner update_winner finds in a grid of cells: rows 0..2 first, then
\* columns 0..2, then the diagonals; None when no line is complete
first_line(sq) ==
  IF row_line(sq, 0) THEN sq[0][0]
  ELSE IF row_line(sq, 1) THEN sq[1][0]
  ELSE IF row_line(sq, 2) THEN sq[2][0]
  ELSE IF col_line(sq, 0) THEN sq[0][0]
  ELSE IF col_line(sq, 1) THEN sq[0][1]
  ELSE IF col_line(sq, 2) THEN sq[0][2]
  ELSE IF diag_line(sq) THEN sq[1][1]
  ELSE None

\* update_winner without the early return on a set winner
update_winner_recompute(ib) == [ib EXCEPT !.winner = first_line(ib.squares)]

\* InnerBoard::update_winner: a set winner is kept
update_winner(ib) ==
  IF ib.winner # None THEN ib
  ELSE [ib EXCEPT !.winner = first_line(ib.squares)]

\* InnerBoard::can_play
can_play(ib) ==
  /\ ib.winner = None
  /\ \E r \in Idx : \E c \in Idx : ib.squares[r][c] = None

\* the cells 0..8 in row-major order
CellOrder == [i \in 1 .. 9 |-> <<(i - 1) \div 3, (i - 1) % 3>>]

\* inner_possible_moves without the can_play test
inner_possible_moves_any(ib) ==
  SelectSeq(CellOrder, LAMBDA rc : ib.squares[rc[1]][rc[2]] = None)

\* InnerBoard::possible_moves: the empty cells in row-major order, nothing
\* for a board that cannot be played
inner_possible_moves(ib) ==
  IF ~can_play(ib) THEN <<>>
  ELSE SelectSeq(CellOrder, LAMBDA rc : ib.squares[rc[1]][rc[2]] = None)

(* ------------------------------------------------------------------ *)
(* OuterBoard (src/src/game.rs)                                        *)
(* ------------------------------------------------------------------ *)

\* struct Move
Move(o, i, p) == [outer |-> o, inner |-> i, player |-> p]

\* the 3x3 grid of the sub-boards' winners
winners(b) == [r \in Idx |-> [c \in Idx |-> b.boards[r][c].winner]]

\* update_overall_winner with the diagonals left out
update_overall_winner_no_diag(b) ==
  LET w == winners(b)
  IN IF b.overall_winner # None THEN b
     ELSE [b EXCEPT !.overall_winner =
             IF row_line(w, 0) THEN w[0][0]
             ELSE IF row_line(w, 1) THEN w[1][0]
             ELSE IF row_line(w, 2) THEN w[2][0]
             ELSE IF col_line(w, 0) THEN w[0][0]
             ELSE IF col_line(w, 1) THEN w[0][1]
             ELSE IF col_line(w, 2) THEN w[0][2]
             ELSE None]

\* OuterBoard::update_overall_winner: a set overall_winner is kept
update_overall_winner(b) ==
  IF b.overall_winner # None THEN b
  ELSE [b EXCEPT !.overall_winner = first_line(winners(b))]

\* an array index in bounds (an out-of-bounds index panics)
in_bounds(rc) == rc[1] \in Idx /\ rc[2] \in Idx

\* results of make_move: Option<OuterBoard>, or the panic of an index out of bounds
NoResult == [kind |-> "None"]
Panic == [kind |-> "Panic"]
SomeBoard(b) == [kind |-> "Some", board |-> b]

\* place with active_square decided on the board before the move
place_stale_active(b, m) ==
  LET o == m.outer
      i == m.inner
      placed == [b EXCEPT !.boards[o[1]][o[2]].squares[i[1]][i[2]] = m.player]
      won == [placed EXCEPT !.boards[o[1]][o[2]] = update_winner(@)]
      act == [won EXCEPT !.active_square =
                IF can_play(b.boards[i[1]][i[2]]) THEN i ELSE NoSquare]
  IN update_overall_winner(act)

\* place with active_square always set to the inner coordinate
place_always_active(b, m) ==
  LET o == m.outer
      i == m.inner
      placed == [b EXCEPT !.boards[o[1]][o[2]].squares[i[1]][i[2]] = m.player]
      won == [placed EXCEPT !.boards[o[1]][o[2]] = update_winner(@)]
      act == [won EXCEPT !.active_square = i]
  IN update_overall_winner(act)

\* place with the mark written at the swapped indices: sub-board
\* move.inner, cell move.outer
place_swapped(b, m) ==
  LET o == m.outer
      i == m.inner
      placed == [b EXCEPT !.boards[i[1]][i[2]].squares[o[1]][o[2]] = m.player]
      won == [placed EXCEPT !.boards[o[1]][o[2]] = update_winner(@)]
      act == [won EXCEPT !.active_square =
                IF can_play(won.boards[i[1]][i[2]]) THEN i ELSE NoSquare]
  IN update_overall_winner(act)

\* lines 231..245 of make_move: the copy with the mark placed, the sub-board's
\* winner recomputed, then active_square, then overall_winner
place(b, m) ==
  LET o == m.outer
      i == m.inner
      placed == [b EXCEPT !.boards[o[1]][o[2]].squares[i[1]][i[2]] = m.player]
      won == [placed EXCEPT !.boards[o[1]][o[2]] = update_winner(@)]
      act == [won EXCEPT !.active_square =
                IF can_play(won.boards[i[1]][i[2]]) THEN i ELSE NoSquare]
  IN update_overall_winner(act)

\* make_move without the test of the target sub-board's winner
make_move_on_won(b, m) ==
  IF b.active_square # NoSquare /\ m.outer # b.active_square THEN NoResult
  ELSE IF b.overall_winner # None THEN NoResult
  ELSE IF ~in_bounds(m.outer) THEN Panic
  ELSE IF ~in_bounds(m.inner) THEN Panic
  ELSE IF b.boards[m.outer[1]][m.outer[2]].squares[m.inner[1]][m.inner[2]] # None
       THEN NoResult
  ELSE SomeBoard(place(b, m))

\* make_move without the test of overall_winner
make_move_ignore_overall(b, m) ==
  IF b.active_square # NoSquare /\ m.outer # b.active_square THEN NoResult
  ELSE IF ~in_bounds(m.outer) THEN Panic
  ELSE IF b.boards[m.outer[1]][m.outer[2]].winner # None THEN NoResult
  ELSE IF ~in_bounds(m.inner) THEN Panic
  ELSE IF b.boards[m.outer[1]][m.outer[2]].squares[m.inner[1]][m.inner[2]] # None
       THEN NoResult
  ELSE SomeBoard(place(b, m))

\* make_move without the test of the target cell: a mark is written over
\* a mark
make_move_on_occupied(b, m) ==
  IF b.active_square # NoSquare /\ m.outer # b.active_square THEN NoResult
  ELSE IF b.overall_winner # None THEN NoResult
  ELSE IF ~in_bounds(m.outer) THEN Panic
  ELSE IF b.boards[m.outer[1]][m.outer[2]].winner # None THEN NoResult
  ELSE IF ~in_bounds(m.inner) THEN Panic
  ELSE SomeBoard(place(b, m))

\* OuterBoard::make_move
make_move(b, m) ==
  IF b.active_square # NoSquare /\ m.outer # b.active_square THEN NoResult
  ELSE IF b.overall_winner # None THEN NoResult
  ELSE IF ~in_bounds(m.outer) THEN Panic
  ELSE IF b.boards[m.outer[1]][m.outer[2]].winner # None THEN NoResult
  ELSE IF ~in_bounds(m.inner) THEN Panic
  ELSE IF b.boards[m.outer[1]][m.outer[2]].squares[m.inner[1]][m.inner[2]] # None
       THEN NoResult
  ELSE SomeBoard(place(b, m))

\* the moves of one sub-board, tagged with the player
board_moves(b, o, player) ==
  LET cells == inner_possible_moves(b.boards[o[1]][o[2]])
  IN [k \in 1 .. Len(cells) |-> Move(o, cells[k], player)]

RECURSIVE all_board_moves(_, _, _)
\* the else branch of possible_moves: sub-boards k..9 in row-major order
all_board_moves(b, k, player) ==
  IF k > 9 THEN <<>>
  ELSE board_moves(b, CellOrder[k], player) \o all_board_moves(b, k + 1, player)

\* OuterBoard::possible_moves
possible_moves(b, player) ==
  IF b.active_square # NoSquare THEN board_moves(b, b.active_square, player)
  ELSE all_board_moves(b, 1, player)


(* ------------------------------------------------------------------ *)
(* Searcher (src/src/game/searcher.rs)                                 *)
(* ------------------------------------------------------------------ *)

\* i32::MAX and i32::MIN
I32_MAX == 2147483647
I32_MIN == -I32_MAX - 1

\* const MAX_DEPTH
MAX_DEPTH == 16

\* Err(Draw), the cell of a full sub-board without winner in
\* meta_board_with_draws
Draw == "Draw"

\* OuterBoard::meta_board: the sub-boards' winners as the cells of an
\* InnerBoard, its winner found by the same line check
meta_board(b) == update_winner([squares |-> winners(b), winner |-> None])

\* OuterBoard::meta_board_with_draws: Some(Ok(mark)) for a won sub-board,
\* Some(Err(Draw)) for a full one without winner, None for an open one
meta_board_with_draws(b) ==
  [r \in Idx |-> [c \in Idx |->
     IF b.boards[r][c].winner # None THEN b.boards[r][c].winner
     ELSE IF ~can_play(b.boards[r][c]) THEN Draw
     ELSE None]]

\* 1 for true, 0 for false
Count(cond) == IF cond THEN 1 ELSE 0

\* two_and_empty without the test for an empty cell
two_and_any_third(x, y, z, mark) ==
  Count(x = mark) + Count(y = mark) + Count(z = mark) = 2

\* the row and column tests of threats: exactly two cells hold the mark and
\* a cell of the line is empty
two_and_empty(x, y, z, mark) ==
  /\ Count(x = mark) + Count(y = mark) + Count(z = mark) = 2
  /\ (x = None \/ y = None \/ z = None)

\* the diagonal tests of threats: two cells hold the mark, the third is empty
diag_threat(x, y, z, mark) ==
  \/ (x = mark /\ y = mark /\ z = None)
  \/ (x = None /\ y = mark /\ z = mark)
  \/ (x = mark /\ y = None /\ z = mark)

\* Searcher::threats
threats(sq, mark) ==
  Count(two_and_empty(sq[0][0], sq[0][1], sq[0][2], mark))
  + Count(two_and_empty(sq[1][0], sq[1][1], sq[1][2], mark))
  + Count(two_and_empty(sq[2][0], sq[2][1], sq[2][2], mark))
  + Count(two_and_empty(sq[0][0], sq[1][0], sq[2][0], mark))
  + Count(two_and_empty(sq[0][1], sq[1][1], sq[2][1], mark))
  + Count(two_and_empty(sq[0][2], sq[1][2], sq[2][2], mark))
  + Count(diag_threat(sq[0][0], sq[1][1], sq[2][2], mark))
  + Count(diag_threat(sq[0][2], sq[1][1], sq[2][0], mark))

\* control with the cells of the opponent left out
control_player_only(cell, player, w) == IF cell = player THEN w ELSE 0

\* the control term of one cell: +w for player, -w for the opponent
control(cell, player, w) ==
  IF cell = player THEN w ELSE IF cell = Not(player) THEN 0 - w ELSE 0

\* the closure score_inner of heuristic, as the amount it adds to the score
score_inner(ib, player, score_threats) ==
  IF ib.winner # None
  THEN (IF ib.winner = player THEN 1000 ELSE 0 - 1000)
  ELSE (IF score_threats
        THEN 100 * threats(ib.squares, player) - 100 * threats(ib.squares, Not(player))
        ELSE 0)
       + control(ib.squares[1][1], player, 10)
       + control(ib.squares[0][1], player, 5) + control(ib.squares[1][0], player, 5)
       + control(ib.squares[1][2], player, 5) + control(ib.squares[2][1], player, 5)
       + control(ib.squares[0][0], player, 2) + control(ib.squares[0][2], player, 2)
       + control(ib.squares[2][0], player, 2) + control(ib.squares[2][2], player, 2)

RECURSIVE sum_inner(_, _, _)
\* the loop of heuristic over the nine sub-boards, from the k-th on
sum_inner(b, player, k) ==
  IF k > 9 THEN 0
  ELSE score_inner(b.boards[CellOrder[k][1]][CellOrder[k][2]], player, TRUE)
       + sum_inner(b, player, k + 1)

\* heuristic with the terminal rule blind to the winner's mark: a decided
\* game scores i32::MAX for either player
heuristic_any_winner(b, player, next_mark) ==
  LET meta == meta_board(b)
      draws == meta_board_with_draws(b)
  IN IF meta.winner # None
     THEN I32_MAX
     ELSE (score_inner(meta, player, FALSE)
           + 100 * threats(draws, player)
           - 100 * threats(draws, Not(player))) * 5
          + sum_inner(b, player, 1)
          + (IF b.active_square = NoSquare
             THEN (IF next_mark = player THEN 200 ELSE 0 - 200)
             ELSE 0)

\* heuristic with the tempo term added whatever active_square holds
heuristic_tempo_always(b, player, next_mark) ==
  LET meta == meta_board(b)
      draws == meta_board_with_draws(b)
  IN IF meta.winner # None
     THEN (IF meta.winner = player THEN I32_MAX ELSE I32_MIN)
     ELSE (score_inner(meta, player, FALSE)
           + 100 * threats(draws, player)
           - 100 * threats(draws, Not(player))) * 5
          + sum_inner(b, player, 1)
          + (IF next_mark = player THEN 200 ELSE 0 - 200)

\* Searcher::heuristic
heuristic(b, player, next_mark) ==
  LET meta == meta_board(b)
      draws == meta_board_with_draws(b)
  IN IF meta.winner # None
     THEN (IF meta.winner = player THEN I32_MAX ELSE I32_MIN)
     ELSE (score_inner(meta, player, FALSE)
           + 100 * threats(draws, player)
           - 100 * threats(draws, Not(player))) * 5
          + sum_inner(b, player, 1)
          + (IF b.active_square = NoSquare
             THEN (IF next_mark = player THEN 200 ELSE 0 - 200)
             ELSE 0)

\* the larger and the smaller of two i32
Max(x, y) == IF x >= y THEN x ELSE y
Min(x, y) == IF x <= y THEN x ELSE y

\* a call of branch that has not yet tested its cutoff
Frame(node, depth, maximizing, alpha, beta) ==
  [node |-> node, depth |-> depth, maximizing |-> maximizing,
   alpha |-> alpha, beta |-> beta,
   pc |-> "enter", moves |-> <<>>, idx |-> 0, best_eval |-> 0]

\* cutoff without the test of the depth
cutoff_no_depth(f, timeUp) == f.node.overall_winner # None \/ timeUp

\* cutoff without the test of the elapsed time
cutoff_no_clock(f, timeUp) == f.depth = 0 \/ f.node.overall_winner # None

\* the cutoff test of branch
cutoff(f, timeUp) == f.depth = 0 \/ f.node.overall_winner # None \/ timeUp

\* side with the flag ignored: every call enumerates the moves of player
side_always_player(f, player) == player

\* the mark whose moves a call of branch enumerates, also the next_mark it
\* hands to heuristic
side(f, player) == IF f.maximizing THEN player ELSE Not(player)

\* a call of branch past its cutoff test, at the head of its loop
enter_loop(f, player) ==
  [f EXCEPT !.pc = "loop",
            !.moves = possible_moves(f.node, side(f, player)),
            !.idx = 1,
            !.best_eval = IF f.maximizing THEN I32_MIN ELSE I32_MAX]

\* fold_eval with the comparison of the cut-off turned round
fold_eval_cut_reversed(f, eval) ==
  LET best == IF f.maximizing THEN Max(f.best_eval, eval) ELSE Min(f.best_eval, eval)
      a == IF f.maximizing THEN Max(f.alpha, eval) ELSE f.alpha
      b == IF f.maximizing THEN f.beta ELSE Min(f.beta, eval)
  IN [f EXCEPT !.best_eval = best, !.alpha = a, !.beta = b,
               !.pc = IF b >= a THEN "break" ELSE "loop",
               !.idx = f.idx + 1]

\* the loop body of branch after the recursive call returned eval: best_eval
\* and alpha or beta are updated, then the loop breaks or goes on
fold_eval(f, eval) ==
  LET best == IF f.maximizing THEN Max(f.best_eval, eval) ELSE Min(f.best_eval, eval)
      a == IF f.maximizing THEN Max(f.alpha, eval) ELSE f.alpha
      b == IF f.maximizing THEN f.beta ELSE Min(f.beta, eval)
  IN [f EXCEPT !.best_eval = best, !.alpha = a, !.beta = b,
               !.pc = IF b <= a THEN "break" ELSE "loop",
               !.idx = f.idx + 1]

\* max_by_key over the finished tasks: the index of the last task whose
\* value is the maximum, 0 for no task
max_by_key(ts) ==
  IF Len(ts) = 0 THEN 0
  ELSE CHOOSE k \in 1 .. Len(ts) :
         /\ \A j \in 1 .. Len(ts) : ts[j].value <= ts[k].value
         /\ \A j \in k + 1 .. Len(ts) : ts[j].value < ts[k].value

(* ------------------------------------------------------------------ *)
(* Inputs: recorded games and free calls                               *)
(* ------------------------------------------------------------------ *)

\* all moves with in-bounds coordinates
Moves == {Move(o, i, p) : o \in Squares, i \in Squares, p \in Mark}

\* the largest coordinate of a move a caller passes: the fields of Move are
\* u8, and every value above 2 indexes outside the arrays alike
MaxCoord == 3

\* the values of Move a caller can pass, coordinates out of bounds included
AnyMoves ==
  {Move(<<a, b>>, <<c, d>>, p) :
     a \in 0 .. MaxCoord, b \in 0 .. MaxCoord,
     c \in 0 .. MaxCoord, d \in 0 .. MaxCoord, p \in Mark}

\* a recorded game, X and O alternating, up to a position with three open
\* cells left in which X can win at once
Opening ==
  << Move(<<1, 1>>, <<0, 0>>, "X"), Move(<<0, 0>>, <<0, 1>>, "O"),
  Move(<<0, 1>>, <<2, 1>>, "X"), Move(<<2, 1>>, <<1, 0>>, "O"),
  Move(<<1, 0>>, <<1, 0>>, "X"), Move(<<1, 0>>, <<1, 2>>, "O"),
  Move(<<1, 2>>, <<2, 1>>, "X"), Move(<<2, 1>>, <<2, 0>>, "O"),
  Move(<<2, 0>>, <<2, 0>>, "X"), Move(<<2, 0>>, <<0, 2>>, "O"),
  Move(<<0, 2>>, <<2, 2>>, "X"), Move(<<2, 2>>, <<0, 2>>, "O"),
  Move(<<0, 2>>, <<0, 2>>, "X"), Move(<<0, 2>>, <<2, 1>>, "O"),
  Move(<<2, 1>>, <<0, 1>>, "X"), Move(<<0, 1>>, <<0, 2>>, "O"),
  Move(<<0, 2>>, <<2, 0>>, "X"), Move(<<2, 0>>, <<2, 2>>, "O"),
  Move(<<2, 2>>, <<0, 1>>, "X"), Move(<<0, 1>>, <<2, 0>>, "O"),
  Move(<<2, 0>>, <<2, 1>>, "X"), Move(<<2, 1>>, <<1, 1>>, "O"),
  Move(<<1, 1>>, <<2, 2>>, "X"), Move(<<2, 2>>, <<0, 0>>, "O"),
  Move(<<0, 0>>, <<0, 2>>, "X"), Move(<<0, 2>>, <<0, 0>>, "O"),
  Move(<<0, 0>>, <<2, 2>>, "X"), Move(<<2, 2>>, <<2, 1>>, "O"),
  Move(<<2, 1>>, <<0, 2>>, "X"), Move(<<0, 2>>, <<0, 1>>, "O"),
  Move(<<0, 1>>, <<0, 1>>, "X"), Move(<<0, 1>>, <<2, 2>>, "O"),
  Move(<<2, 2>>, <<2, 2>>, "X"), Move(<<2, 2>>, <<2, 0>>, "O"),
  Move(<<2, 0>>, <<0, 0>>, "X"), Move(<<0, 0>>, <<1, 1>>, "O"),
  Move(<<1, 1>>, <<1, 2>>, "X"), Move(<<1, 2>>, <<0, 0>>, "O"),
  Move(<<0, 0>>, <<1, 0>>, "X"), Move(<<1, 0>>, <<1, 1>>, "O"),
  Move(<<1, 1>>, <<2, 0>>, "X"), Move(<<2, 0>>, <<1, 1>>, "O"),
  Move(<<1, 1>>, <<0, 2>>, "X"), Move(<<0, 2>>, <<1, 2>>, "O"),
  Move(<<1, 2>>, <<1, 0>>, "X"), Move(<<1, 0>>, <<0, 1>>, "O"),
  Move(<<0, 1>>, <<1, 1>>, "X"), Move(<<2, 1>>, <<0, 0>>, "O"),
  Move(<<0, 0>>, <<2, 1>>, "X"), Move(<<1, 0>>, <<2, 0>>, "O"),
  Move(<<2, 0>>, <<1, 2>>, "X"), Move(<<1, 2>>, <<1, 2>>, "O"),
  Move(<<1, 2>>, <<1, 1>>, "X"), Move(<<1, 0>>, <<0, 2>>, "O"),
  Move(<<0, 2>>, <<1, 1>>, "X"), Move(<<2, 0>>, <<1, 0>>, "O"),
  Move(<<1, 2>>, <<0, 2>>, "X"), Move(<<2, 2>>, <<1, 1>>, "O"),
  Move(<<1, 2>>, <<0, 1>>, "X"), Move(<<0, 0>>, <<1, 2>>, "O") >>
\* the recorded game goes on to a board with no move left and no winner
DrawEnding ==
  << Move(<<2, 0>>, <<0, 1>>, "X"), Move(<<0, 0>>, <<2, 0>>, "O"),
  Move(<<0, 0>>, <<0, 0>>, "X") >>
\* the other ending: X takes the win
WinEnding ==
  << Move(<<0, 0>>, <<2, 0>>, "X") >>

\* the recorded games a run may replay
Scripts == {Opening \o DrawEnding, Opening \o WinEnding}

\* the number of calls of make_move a run may make that are not replayed
\* from a recorded game
MaxFree == 1

\* a search is started only on boards with at most this many empty cells in
\* sub-boards that can still be played
MaxSearchCells == 4

\* the number of empty cells in sub-boards that can be played
open_cells(b) == Len(all_board_moves(b, 1, "X"))

(* ------------------------------------------------------------------ *)
(* App, its channels and its worker thread (src/src/main.rs)           *)
(* ------------------------------------------------------------------ *)

\* sync_channel(1)
ChannelCap == 1

\* best_move returned None
NoChoice == [kind |-> "None", move |-> Move(<<0, 0>>, <<0, 0>>, "X"), value |-> 0]

HUMAN_MARK == "X"
COMPUTER_MARK == "O"

\* Option<Move>
NoneMove == [kind |-> "None", move |-> Move(<<0, 0>>, <<0, 0>>, "X")]
SomeMove(m) == [kind |-> "Some", move |-> m]

\* GameState::root
root(b) ==
  [board |-> b, last_player_move |-> NoneMove, last_computer_move |-> NoneMove,
   eval |-> 0]

\* the worker waits in recv of the request channel
Waiting == [pc |-> "recv", player |-> "X", board |-> EmptyOuter]

\* App::default(): two empty channels, a new worker thread that waits for
\* a request, no history; with it the position in the frame (the handlers
\* of the side panel, the poll of draw_game, the click of draw_game),
\* whether the modal was shown in the frame before and in this frame, the
\* state of the UI thread, and the history as it was when the request was
\* sent that is on its way
NewApp ==
  [req |-> <<>>, resp |-> <<>>, thinking |-> FALSE, states |-> <<>>,
   worker |-> Waiting,
   pc |-> "panel", modal |-> FALSE, shown |-> FALSE, ui |-> "run", sent |-> <<>>]

\* App::board
app_board(a) ==
  IF a.states = <<>> THEN EmptyOuter ELSE a.states[Len(a.states)].board

\* states.last().copied().unwrap_or_else(|| GameState::root(default))
last_or_root(a) ==
  IF a.states = <<>> THEN root(EmptyOuter) ELSE a.states[Len(a.states)]

\* req_tx.send((player, self.board())).unwrap(); self.thinking = true: a
\* send on a full channel blocks the UI thread before thinking is set
request(a, player) ==
  IF Len(a.req) >= ChannelCap
  THEN [a EXCEPT !.ui = "blocked"]
  ELSE [a EXCEPT !.req = Append(@, [player |-> player, board |-> app_board(a)]),
                 !.thinking = TRUE,
                 !.sent = a.states]

\* the button Reset: *self = App::default(); the channels of the old App
\* are dropped, which ends its worker thread
reset(a) == [NewApp EXCEPT !.pc = a.pc, !.modal = a.modal, !.shown = a.shown]

\* the button Partita a caso
random_game(a, b) == [a EXCEPT !.states = <<root(b)>>]

\* play_for_me without the test of thinking
play_for_me_unchecked(a) == request(a, HUMAN_MARK)

\* the button Gioca per me
play_for_me(a) == IF ~a.thinking THEN request(a, HUMAN_MARK) ELSE a

\* the button Annulla mossa: assert!(!self.thinking); self.states.pop()
undo(a) ==
  IF a.thinking THEN [a EXCEPT !.ui = "assert"]
  ELSE IF a.states = <<>> THEN a
  ELSE [a EXCEPT !.states = SubSeq(@, 1, Len(@) - 1)]

\* the button Carica with a file chosen: a new App with the decoded
\* history, or with none when the file cannot be decoded
load(a, saved) == [reset(a) EXCEPT !.states = saved]

\* the search has ended for the request on its way
answered(a) == [a EXCEPT !.thinking = FALSE, !.sent = <<>>]

\* the first part of draw_game: while thinking, try_recv; a response with a
\* move the board accepts is applied, and one for the human's side is
\* followed by a request for the computer's side; without a response the
\* modal is shown
poll(a) ==
  IF ~a.thinking THEN [a EXCEPT !.shown = FALSE]
  ELSE IF a.resp = <<>> THEN [a EXCEPT !.shown = TRUE]
  ELSE LET r == Head(a.resp)
           a1 == [a EXCEPT !.resp = Tail(@), !.shown = FALSE]
           nb == make_move(app_board(a), r.move)
       IN IF r.kind = "None" THEN answered(a1)
          ELSE IF nb.kind = "Panic" THEN [a1 EXCEPT !.ui = "index"]
          ELSE IF nb.kind = "None" THEN answered(a1)
          ELSE IF r.move.player # COMPUTER_MARK
          THEN request(
                 [a1 EXCEPT !.states =
                    Append(@, [last_or_root(a1) EXCEPT
                                 !.last_player_move = SomeMove(r.move),
                                 !.board = nb.board,
                                 !.eval = r.value])],
                 COMPUTER_MARK)
          ELSE IF a1.states = <<>> THEN [a1 EXCEPT !.ui = "unwrap"]
          ELSE answered(
                 [a1 EXCEPT !.states[Len(a1.states)] =
                    [@ EXCEPT !.last_computer_move = SomeMove(r.move),
                              !.board = nb.board,
                              !.eval = r.value]])

\* the last part of draw_game: a click on the cell c = <<outer, inner>>,
\* or no click (<<>>)
click(a, c) ==
  IF a.thinking \/ c = <<>> THEN a
  ELSE LET m == Move(c[1], c[2], HUMAN_MARK)
           nb == make_move(app_board(a), m)
       IN IF nb.kind # "Some" THEN a
          ELSE request(
                 [a EXCEPT !.states =
                    Append(@, [last_or_root(a) EXCEPT
                                 !.board = nb.board,
                                 !.last_player_move = SomeMove(m),
                                 !.eval = 0])],
                 COMPUTER_MARK)

\* OuterBoard::random: the random active square sq and the random content
\* fill of every cell, then update_winner of every sub-board and
\* update_overall_winner
random(fill, sq) ==
  update_overall_winner(
    [boards |-> [r \in Idx |-> [c \in Idx |->
                   update_winner([squares |-> [ir \in Idx |-> [ic \in Idx |->
                                                 fill[<<r, c>>][<<ir, ic>>]]],
                                  winner |-> None])]],
     overall_winner |-> None,
     active_square |-> sq])

\* the history has at most this many entries when a move is added to it
MaxStates == 2

\* the scores a response carries
EvalSamples == {I32_MIN, 0}

\* what state.best_move(player) can return: nothing when possible_moves is
\* empty, else one of its moves with a score; the moves followed are the
\* first and the last of possible_moves
BestMoves(b, player) ==
  LET ms == possible_moves(b, player)
  IN IF ms = <<>> THEN {NoChoice}
     ELSE {[kind |-> "Some", move |-> ms[k], value |-> v] :
             k \in {1, Len(ms)}, v \in EvalSamples}

\* the cells a click can land on
ClickCells == {<<<<0, 0>>, <<0, 0>>>>, <<<<1, 1>>, <<1, 1>>>>, <<<<0, 2>>, <<0, 2>>>>}

\* a random board on which X wins the game with the cell (0, 2) of the
\* sub-board (0, 2): the top rows of the sub-boards (0, 0) and (0, 1) and
\* two cells of the top row of the active sub-board (0, 2) were drawn as X
NearWin ==
  random([o \in Squares |-> [i \in Squares |->
            IF o[1] = 0 /\ i[1] = 0 /\ <<o, i>> # <<<<0, 2>>, <<0, 2>>>>
            THEN "X" ELSE None]],
         <<0, 2>>)

\* random boards: two with no cell filled, one with every cell drawn as X,
\* and NearWin
RandomBoards ==
  {random([o \in Squares |-> [i \in Squares |-> None]], <<0, 0>>),
   random([o \in Squares |-> [i \in Squares |-> None]], <<1, 1>>),
   random([o \in Squares |-> [i \in Squares |-> "X"]], <<0, 0>>),
   NearWin}

\* the histories a file can hold: none, and one saved right after Partita
\* a caso
SavedGames == {<<>>, <<root(NearWin)>>}

\* the buttons of the side panel
Buttons == {"reset", "random", "play", "undo", "load"}

(* ------------------------------------------------------------------ *)
(* State                                                               *)
(* ------------------------------------------------------------------ *)

VARIABLES
  board,   \* the current OuterBoard of the game
  hist,    \* the moves make_move has accepted so far, oldest first
  prev,    \* the board the last call of make_move was made on
  last,    \* the last call of make_move: who chose the move, the move, the result
  free,    \* the number of calls so far that were not replayed
  status,  \* Searcher::search: "idle" before a call, "running", "done"
  searcher,\* the Searcher of the call and the board it was given
  tasks,   \* the parallel map of search: one task per move of possible_moves
  stack,   \* the calls of branch of the task that is running, outermost first
  expired, \* the time since start_time exceeds MAX_SEARCH_TIME
  result,  \* what search returned: None or Some((move, value))
  ttable,  \* the static TRANSPOSITION_TABLE
  earlier, \* what the call of search before a repeated call returned
  app      \* the App of main.rs with its channels and its worker thread

gameVars == <<board, hist, prev, last, free>>
searchVars == <<status, searcher, tasks, stack, expired, result>>
otherVars == <<ttable, earlier, app>>
vars ==
  <<board, hist, prev, last, free, status, searcher, tasks, stack, expired, result,
    ttable, earlier, app>>

\* the OnceLock of TRANSPOSITION_TABLE before its first use: no map yet
NoTable == [init |-> FALSE, entries |-> {}]

\* TRANSPOSITION_TABLE.get_or_init(|| DashMap::new()): the first call makes
\* an empty map, a later one leaves the map as it is
get_or_init(t) == IF t.init THEN t ELSE [init |-> TRUE, entries |-> {}]

\* no call of make_move yet
NoCall == [by |-> "none", move |-> Move(<<0, 0>>, <<0, 0>>, "X"), kind |-> "None"]

\* search returned None
NoMove == [kind |-> "None", move |-> Move(<<0, 0>>, <<0, 0>>, "X"), value |-> 0]

\* search was not called before with the board and the player of this call
NoEarlier == [again |-> FALSE, expired |-> FALSE, result |-> NoMove]

Init ==
  /\ board = EmptyOuter
  /\ hist = <<>>
  /\ prev = EmptyOuter
  /\ last = NoCall
  /\ free = 0
  /\ status = "idle"
  /\ searcher = [player |-> "X", board |-> EmptyOuter]
  /\ tasks = <<>>
  /\ stack = <<>>
  /\ expired = FALSE
  /\ result = NoMove
  /\ ttable = NoTable
  /\ earlier = NoEarlier
  /\ app = NewApp

\* one call board.make_move(m): an accepted move yields the next board of
\* the game, a rejected one leaves the game where it is; a panic ends the
\* program, no call follows it
Do(m, by) ==
  \E r \in {make_move(board, m)} :
     /\ last.kind # "Panic"
     /\ prev' = board
     /\ last' = [by |-> by, move |-> m, kind |-> r.kind]
     /\ board' = IF r.kind = "Some" THEN r.board ELSE board
     /\ hist' = IF r.kind = "Some" THEN Append(hist, m) ELSE hist

\* the next move of a recorded game is played
ScriptMove ==
  /\ status # "running"
  /\ \E s \in Scripts :
       /\ Len(hist) < Len(s)
       /\ SubSeq(s, 1, Len(hist)) = hist
       /\ Do(s[Len(hist) + 1], "script")
  /\ UNCHANGED <<free, searchVars, otherVars>>

\* a caller applies an arbitrary move
Call ==
  /\ free < MaxFree
  /\ \E m \in Moves : Do(m, "call")
  /\ free' = free + 1
  /\ UNCHANGED <<searchVars, otherVars>>

\* a caller applies a move taken from possible_moves of the same board
Generated ==
  /\ free < MaxFree
  /\ \E p \in Mark :
       LET ms == possible_moves(board, p)
       IN \E k \in 1 .. Len(ms) : Do(ms[k], "generated")
  /\ free' = free + 1
  /\ UNCHANGED <<searchVars, otherVars>>

Next == ScriptMove \/ Call \/ Generated

Spec == Init /\ [][Next]_vars

\* a caller applies an arbitrary value of Move, coordinates out of bounds
\* included
CallAny ==
  /\ free < MaxFree
  /\ \E m \in AnyMoves : Do(m, "call")
  /\ free' = free + 1
  /\ UNCHANGED <<searchVars, otherVars>>

NextTotal == ScriptMove \/ CallAny

SpecTotal == Init /\ [][NextTotal]_vars

\* the players go on freely only on boards with at most this many empty
\* cells in sub-boards that can still be played
MaxPlayCells == 5

\* a game goes on with any move, of either mark, that make_move accepts
Play ==
  /\ open_cells(board) <= MaxPlayCells
  /\ \E m \in Moves :
       /\ make_move(board, m).kind = "Some"
       /\ Do(m, "play")
  /\ UNCHANGED <<free, searchVars, otherVars>>

NextPlay == ScriptMove \/ Play

SpecPlay == Init /\ [][NextPlay]_vars

\* a game is played on while a move is accepted
SpecPlayFair == SpecPlay /\ WF_vars(NextPlay)

(* ------------------------------------------------------------------ *)
(* Searcher::search, step by step                                      *)
(* ------------------------------------------------------------------ *)

\* search(board, player) is called: the Searcher is built and one task per
\* move of possible_moves is handed to the pool
StartSearch ==
  /\ status # "running"
  /\ open_cells(board) <= MaxSearchCells
  /\ \E p \in Mark :
       LET ms == possible_moves(board, p)
       IN /\ searcher' = [player |-> p, board |-> board]
          /\ tasks' = [k \in 1 .. Len(ms) |->
                         [move |-> ms[k], state |-> "todo", value |-> 0]]
  /\ status' = "running"
  /\ stack' = <<>>
  /\ expired' = FALSE
  /\ result' = NoMove
  /\ ttable' = get_or_init(ttable)
  /\ earlier' = NoEarlier
  /\ UNCHANGED <<gameVars, app>>

\* the wall clock passes start_time + MAX_SEARCH_TIME
Clock ==
  /\ status = "running"
  /\ ~expired
  /\ expired' = TRUE
  /\ UNCHANGED <<gameVars, status, searcher, tasks, stack, result, otherVars>>

\* no task is in its closure
NoneRunning == \A k \in 1 .. Len(tasks) : tasks[k].state # "running"

\* the index of the running task
Running == CHOOSE k \in 1 .. Len(tasks) : tasks[k].state = "running"

\* the pool starts the closure of a task, in any order: the move is applied
\* to the board; a rejected move is valued i32::MIN, an accepted one calls
\* branch(&child, MAX_DEPTH - 1, false, i32::MIN, i32::MAX)
TaskStart ==
  /\ status = "running"
  /\ NoneRunning
  /\ \E k \in 1 .. Len(tasks) :
       /\ tasks[k].state = "todo"
       /\ LET r == make_move(searcher.board, tasks[k].move)
          IN IF r.kind = "Some"
             THEN /\ tasks' = [tasks EXCEPT ![k].state = "running"]
                  /\ stack' = <<Frame(r.board, MAX_DEPTH - 1, FALSE, I32_MIN, I32_MAX)>>
             ELSE /\ tasks' = [tasks EXCEPT ![k].state = "done", ![k].value = I32_MIN]
                  /\ stack' = <<>>
  /\ UNCHANGED <<gameVars, status, searcher, expired, result, otherVars>>

\* the innermost call of branch returns v: to the call below it, which goes
\* on with its loop, or to the task's closure, which ends with (move, v)
Return(v) ==
  IF Len(stack) = 1
  THEN /\ stack' = <<>>
       /\ tasks' = [tasks EXCEPT ![Running].state = "done", ![Running].value = v]
  ELSE /\ stack' = [SubSeq(stack, 1, Len(stack) - 1)
                      EXCEPT ![Len(stack) - 1] = fold_eval(@, v)]
       /\ UNCHANGED tasks

\* a call of branch tests its cutoff: it returns the heuristic of its node,
\* or starts to enumerate the moves of the side to move
BranchEnter ==
  /\ status = "running"
  /\ stack # <<>>
  /\ LET f == stack[Len(stack)]
     IN /\ f.pc = "enter"
        /\ IF cutoff(f, expired)
           THEN Return(heuristic(f.node, searcher.player, side(f, searcher.player)))
           ELSE /\ stack' = [stack EXCEPT ![Len(stack)] = enter_loop(f, searcher.player)]
                /\ UNCHANGED tasks
  /\ UNCHANGED <<gameVars, status, searcher, expired, result, otherVars>>

\* a call of branch takes the next move of its loop: a rejected move is
\* skipped, an accepted one is searched one level deeper with the roles
\* swapped; after the last move, and after a break, best_eval is returned
BranchLoop ==
  /\ status = "running"
  /\ stack # <<>>
  /\ LET f == stack[Len(stack)]
     IN /\ f.pc \in {"loop", "break"}
        /\ IF f.pc = "break" \/ f.idx > Len(f.moves)
           THEN Return(f.best_eval)
           ELSE LET r == make_move(f.node, f.moves[f.idx])
                IN /\ stack' =
                        IF r.kind = "Some"
                        THEN Append(stack, Frame(r.board, f.depth - 1, ~f.maximizing,
                                                 f.alpha, f.beta))
                        ELSE [stack EXCEPT ![Len(stack)].idx = f.idx + 1]
                   /\ UNCHANGED tasks
  /\ UNCHANGED <<gameVars, status, searcher, expired, result, otherVars>>

\* search_result with the moves make_move rejected left out
search_result_drop_rejected(ts) ==
  LET kept == SelectSeq(ts, LAMBDA t : t.value # I32_MIN)
  IN IF Len(kept) = 0 THEN NoMove
     ELSE [kind |-> "Some",
           move |-> kept[max_by_key(kept)].move,
           value |-> kept[max_by_key(kept)].value]

\* search_result that keeps the first pair instead of the maximum
search_result_first(ts) ==
  IF Len(ts) = 0 THEN NoMove
  ELSE [kind |-> "Some", move |-> ts[1].move, value |-> ts[1].value]

\* what search returns for the finished tasks: None for an empty list, else
\* the (move, value) pair max_by_key picks
search_result(ts) ==
  IF Len(ts) = 0 THEN NoMove
  ELSE [kind |-> "Some",
        move |-> ts[max_by_key(ts)].move,
        value |-> ts[max_by_key(ts)].value]

\* all tasks have finished: max_by_key picks the result
Reduce ==
  /\ status = "running"
  /\ \A k \in 1 .. Len(tasks) : tasks[k].state = "done"
  /\ status' = "done"
  /\ result' = search_result(tasks)
  /\ UNCHANGED <<gameVars, searcher, tasks, stack, expired, otherVars>>

NextSearch ==
  \/ ScriptMove
  \/ StartSearch
  \/ Clock
  \/ TaskStart
  \/ BranchEnter
  \/ BranchLoop
  \/ Reduce

SpecSearch == Init /\ [][NextSearch]_vars

\* search is called again with the board and the player of the call that
\* ended, and keeps what the task of each move returned in that call
SearchAgain_warm ==
  /\ status = "done"
  /\ board = searcher.board
  /\ status' = "running"
  /\ stack' = <<>>
  /\ expired' = FALSE
  /\ result' = NoMove
  /\ ttable' = get_or_init(ttable)
  /\ earlier' = [again |-> TRUE, expired |-> expired, result |-> result]
  /\ UNCHANGED <<gameVars, searcher, tasks, app>>

\* search is called again with the board and the player of the call that
\* ended: a new Searcher with a new start_time, and one new task per move
SearchAgain ==
  /\ status = "done"
  /\ board = searcher.board
  /\ LET ms == possible_moves(board, searcher.player)
     IN tasks' = [k \in 1 .. Len(ms) |->
                    [move |-> ms[k], state |-> "todo", value |-> 0]]
  /\ status' = "running"
  /\ stack' = <<>>
  /\ expired' = FALSE
  /\ result' = NoMove
  /\ ttable' = get_or_init(ttable)
  /\ earlier' = [again |-> TRUE, expired |-> expired, result |-> result]
  /\ UNCHANGED <<gameVars, searcher, app>>

NextAgain == NextSearch \/ SearchAgain

\* searches, each of them repeated any number of times
SpecAgain == Init /\ [][NextAgain]_vars

(* ------------------------------------------------------------------ *)
(* The frames of the UI and the steps of the worker thread             *)
(* ------------------------------------------------------------------ *)

notApp == <<gameVars, searchVars, ttable, earlier>>

\* the UI thread runs: it is not blocked in a send and has not panicked
UiRuns == app.ui = "run"

\* App::update, the side panel: at most one button is activated, and none
\* while the modal shown in the frame before covers the window
Panel ==
  /\ UiRuns
  /\ app.pc = "panel"
  /\ \/ app' = [app EXCEPT !.pc = "poll"]
     \/ /\ ~app.modal
        /\ \E btn \in Buttons :
             \/ btn = "reset" /\ app' = [reset(app) EXCEPT !.pc = "poll"]
             \/ /\ btn = "random"
                /\ \E b \in RandomBoards :
                     app' = [random_game(app, b) EXCEPT !.pc = "poll"]
             \/ /\ btn = "play"
                /\ Len(app.states) < MaxStates
                /\ app' = [play_for_me(app) EXCEPT !.pc = "poll"]
             \/ btn = "undo" /\ app' = [undo(app) EXCEPT !.pc = "poll"]
             \/ /\ btn = "load"
                /\ \E saved \in SavedGames :
                     app' = [load(app, saved) EXCEPT !.pc = "poll"]
  /\ UNCHANGED notApp

\* draw_game up to the modal
Poll ==
  /\ UiRuns
  /\ app.pc = "poll"
  /\ app' = [poll(app) EXCEPT !.pc = "click"]
  /\ UNCHANGED notApp

\* draw_game from the grid on: at most one cell is clicked, and none while
\* the modal shown in the frame before covers the window; the frame ends
Click ==
  /\ UiRuns
  /\ app.pc = "click"
  /\ \E c \in ClickCells \cup {<<>>} :
       /\ c # <<>> => (~app.modal /\ Len(app.states) < MaxStates)
       /\ app' = [click(app, c) EXCEPT !.pc = "panel", !.modal = app.shown]
  /\ UNCHANGED notApp

\* the worker thread takes the next request from the channel
WorkerRecv ==
  /\ app.worker.pc = "recv"
  /\ app.req # <<>>
  /\ app' = [app EXCEPT !.req = Tail(@),
                        !.worker = [pc |-> "busy",
                                    player |-> Head(app.req).player,
                                    board |-> Head(app.req).board]]
  /\ UNCHANGED notApp

\* the worker thread sends state.best_move(player); the send waits while
\* the response channel is full
WorkerSend ==
  /\ app.worker.pc = "busy"
  /\ Len(app.resp) < ChannelCap
  /\ \E r \in BestMoves(app.worker.board, app.worker.player) :
       app' = [app EXCEPT !.resp = Append(@, r), !.worker = Waiting]
  /\ UNCHANGED notApp

NextApp == Panel \/ Poll \/ Click \/ WorkerRecv \/ WorkerSend

SpecApp == Init /\ [][NextApp]_vars


(* ------------------------------------------------------------------ *)
(* Searcher::branch called at a given depth                            *)
(* ------------------------------------------------------------------ *)

\* the largest depth of a call of branch that is followed on its own
MaxCallDepth == 3

\* a call of branch followed on its own is made only on boards with at most
\* this many empty cells in sub-boards that can still be played
MaxBranchCells == 12

\* the maximizing flag of a call of branch with this depth: search calls
\* branch with MAX_DEPTH - 1 and false, and every level flips the flag
maximizing_at(depth) == (MAX_DEPTH - 1 - depth) % 2 = 1

\* a call branch(node, depth, maximizing, i32::MIN, i32::MAX) below some
\* root: the window is the one search starts with and branch hands down
\* the line of first moves; its value goes to its caller
CallBranch ==
  /\ status # "running"
  /\ open_cells(board) <= MaxBranchCells
  /\ \E p \in Mark : \E d \in 0 .. MaxCallDepth :
       /\ searcher' = [player |-> p, board |-> board]
       /\ stack' = <<Frame(board, d, maximizing_at(d), I32_MIN, I32_MAX)>>
  /\ tasks' = <<[move |-> NoMove.move, state |-> "running", value |-> 0]>>
  /\ status' = "running"
  /\ expired' = FALSE
  /\ result' = NoMove
  /\ ttable' = get_or_init(ttable)
  /\ earlier' = NoEarlier
  /\ UNCHANGED <<gameVars, app>>

NextBranch ==
  \/ ScriptMove
  \/ StartSearch
  \/ TaskStart
  \/ CallBranch
  \/ Clock
  \/ BranchEnter
  \/ BranchLoop
  \/ Reduce

SpecBranch == Init /\ [][NextBranch]_vars

\* the pool runs every task it was handed and a thread that runs a call of
\* branch keeps executing it; the clock may or may not pass the budget
SpecBranchFair ==
  /\ SpecBranch
  /\ WF_vars(TaskStart)
  /\ WF_vars(BranchEnter)
  /\ WF_vars(BranchLoop)
  /\ WF_vars(Reduce)

(* ------------------------------------------------------------------ *)
(* Properties of the board (specification Spec)                        *)
(* ------------------------------------------------------------------ *)

\* the sub-board of b at square rc
Sub(b, rc) == b.boards[rc[1]][rc[2]]

\* the cell rc of a grid
At(sq, rc) == sq[rc[1]][rc[2]]

\* the eight lines of a 3x3 grid
Lines ==
  {{<<r, 0>>, <<r, 1>>, <<r, 2>>} : r \in Idx}
  \cup {{<<0, c>>, <<1, c>>, <<2, c>>} : c \in Idx}
  \cup {{<<0, 0>>, <<1, 1>>, <<2, 2>>}, {<<0, 2>>, <<1, 1>>, <<2, 0>>}}

\* the grid holds a complete line of m
HasLine(sq, m) ==
  \/ \E r \in Idx : sq[r][0] = m /\ sq[r][1] = m /\ sq[r][2] = m
  \/ \E c \in Idx : sq[0][c] = m /\ sq[1][c] = m /\ sq[2][c] = m
  \/ (sq[1][1] = m /\ sq[0][0] = m /\ sq[2][2] = m)
  \/ (sq[1][1] = m /\ sq[0][2] = m /\ sq[2][0] = m)

\* the empty cells of a sub-board
EmptyCells(ib) == {rc \in Squares : At(ib.squares, rc) = None}

\* a sub-board without winner and with an empty cell
Open(ib) == ib.winner = None /\ \E rc \in Squares : At(ib.squares, rc) = None

\* the last call returned a new board
Accepted == last.by # "none" /\ last.kind = "Some"

\* C1: in a board with overall_winner set, possible_moves returns an empty
\* list for both marks.
C1_DecidedBoardHasNoMoves ==
  board.overall_winner # None =>
    \A p \in Mark : possible_moves(board, p) = <<>>

\* C2: a move returned by possible_moves is accepted by make_move on the
\* same board.
C2_GeneratedMoveAccepted ==
  last.by = "generated" => last.kind = "Some"

\* the four reasons of a rejection, on the board and move of a call
WrongSquare(b, m) == b.active_square # NoSquare /\ m.outer # b.active_square
Decided(b) == b.overall_winner # None
TargetWon(b, m) == Sub(b, m.outer).winner # None
Occupied(b, m) == At(Sub(b, m.outer).squares, m.inner) # None

\* C4: a call with in-bounds coordinates returns no result exactly when
\* (a) active_square is set and differs from move.outer, (b) overall_winner
\* is set, (c) the target sub-board has a winner or (d) the target cell is
\* occupied; otherwise it returns a new board.
C4_RejectedIffIllegal ==
  last.by # "none" =>
    /\ last.kind \in {"None", "Some"}
    /\ last.kind = "None" <=>
         \/ WrongSquare(prev, last.move)
         \/ Decided(prev)
         \/ TargetWon(prev, last.move)
         \/ Occupied(prev, last.move)

\* a call rejected only because the target sub-board is won, although the
\* cell is empty
C4_Witness ==
  /\ last.by = "call"
  /\ last.kind = "None"
  /\ TargetWon(prev, last.move)
  /\ ~WrongSquare(prev, last.move)
  /\ ~Decided(prev)
  /\ ~Occupied(prev, last.move)

\* C6: a set active_square names a sub-board without winner that has an
\* empty cell.
C6_ActiveSquarePlayable ==
  board.active_square # NoSquare => Open(Sub(board, board.active_square))

\* a move into the last-but-one empty cell of the sub-board it points to:
\* active_square is set to a sub-board with a single empty cell
C6_Witness ==
  /\ Accepted
  /\ board.active_square = last.move.inner
  /\ last.move.outer = last.move.inner
  /\ Cardinality(EmptyCells(Sub(board, board.active_square))) = 1

\* C7: after an accepted move with inner coordinate rc, active_square is
\* Some(rc) exactly when the sub-board at rc of the new board has no winner
\* and an empty cell, and None otherwise: a move to a won or full sub-board,
\* and a move that wins or fills the sub-board it points to, give None.
C7_ActiveSquareRule ==
  Accepted =>
    LET rc == last.move.inner
        self == last.move.outer = rc
        before == Sub(prev, rc)
        after == Sub(board, rc)
    IN /\ board.active_square = (IF Open(after) THEN rc ELSE NoSquare)
       /\ ~Open(before) => board.active_square = NoSquare
       /\ (self /\ after.winner # None) => board.active_square = NoSquare
       /\ (self /\ EmptyCells(after) = {}) => board.active_square = NoSquare

\* a move that wins the sub-board it points to
C7_Witness ==
  /\ Accepted
  /\ last.move.outer = last.move.inner
  /\ Sub(prev, last.move.inner).winner = None
  /\ Sub(board, last.move.inner).winner = last.move.player
  /\ board.active_square = NoSquare

\* the position of a move in the order sub-board row-major, cell row-major
MoveKey(m) == 27 * m.outer[1] + 9 * m.outer[2] + 3 * m.inner[1] + m.inner[2]

\* the (sub-board, cell) pairs possible_moves has to return
Playable(b) ==
  IF b.active_square # NoSquare
  THEN {<<b.active_square, i>> : i \in EmptyCells(Sub(b, b.active_square))}
  ELSE {oi \in Squares \X Squares :
          Sub(b, oi[1]).winner = None /\ At(Sub(b, oi[1]).squares, oi[2]) = None}

C9_WinnerIffLine ==
  \A rc \in Squares :
    LET ib == Sub(board, rc)
    IN /\ \A m \in Mark : ib.winner = m <=> HasLine(ib.squares, m)
       /\ ~(HasLine(ib.squares, "X") /\ HasLine(ib.squares, "O"))
       /\ (Accepted /\ rc = last.move.outer
             /\ HasLine(ib.squares, last.move.player)
             /\ ~HasLine(Sub(prev, rc).squares, last.move.player))
            => ib.winner = last.move.player

\* a move completes a line although the other mark has two in a row with
\* the third cell of that row taken by the mover
C9_Witness ==
  /\ Accepted
  /\ Sub(prev, last.move.outer).winner = None
  /\ Sub(board, last.move.outer).winner = last.move.player
  /\ \E r \in Idx :
       LET row == Sub(board, last.move.outer).squares[r]
       IN row[0] = Not(last.move.player) /\ row[1] = row[0]

\* the 3x3 grid of sub-board winners holds a complete line of m
MetaLine(b, m) == \E l \in Lines : \A rc \in l : Sub(b, rc).winner = m

\* C10: after an accepted move overall_winner is Some(m) exactly when a
\* row, column or diagonal of the grid of sub-board winners is won by m
\* three times; the move that wins the third sub-board of such a line sets
\* overall_winner to the mover.
C10_OverallWinnerIffMetaLine ==
  /\ \A m \in Mark : board.overall_winner = m <=> MetaLine(board, m)
  /\ (Accepted /\ MetaLine(board, last.move.player)
        /\ ~MetaLine(prev, last.move.player))
       => board.overall_winner = last.move.player

\* a move wins the sub-board that completes a diagonal of the grid
C10_Witness ==
  /\ Accepted
  /\ prev.overall_winner = None
  /\ board.overall_winner = last.move.player
  /\ \/ \A k \in Idx : Sub(board, <<k, k>>).winner = last.move.player
     \/ \A k \in Idx : Sub(board, <<k, 2 - k>>).winner = last.move.player


\* C11: on a board with overall_winner set make_move returns no result for
\* every move of either mark, so a call made on such a board leaves
\* overall_winner and every cell as they were.
C11_DecidedBoardIsFinal ==
  /\ Decided(board) => \A m \in AnyMoves : make_move(board, m) = NoResult
  /\ (last.by # "none" /\ Decided(prev)) => (last.kind = "None" /\ board = prev)

\* a call on a decided board with a move that names the active sub-board,
\* which has no winner, and an empty cell of it
C11_Witness ==
  /\ last.by = "call"
  /\ Decided(prev)
  /\ last.kind = "None"
  /\ ~WrongSquare(prev, last.move)
  /\ ~TargetWon(prev, last.move)
  /\ ~Occupied(prev, last.move)
  /\ board.overall_winner = prev.overall_winner


\* C12: update_winner leaves a sub-board whose winner is set as it is,
\* whatever its cells hold, and applying it twice is applying it once; a
\* sub-board that had a winner before a call of make_move has the same
\* winner and the same cells after it.
C12_WonSubBoardFrozen ==
  \A rc \in Squares :
    /\ \A w \in Mark :
         LET ib == [Sub(board, rc) EXCEPT !.winner = w]
         IN update_winner(ib) = ib
    /\ update_winner(update_winner(Sub(board, rc))) = update_winner(Sub(board, rc))
    /\ (last.by # "none" /\ Sub(prev, rc).winner # None)
         => Sub(board, rc) = Sub(prev, rc)

\* a move accepted under free choice while a won sub-board still had an
\* empty cell
C12_Witness ==
  /\ Accepted
  /\ prev.active_square = NoSquare
  /\ \E rc \in Squares :
       /\ Sub(prev, rc).winner # None
       /\ EmptyCells(Sub(prev, rc)) # {}
       /\ Sub(board, rc) = Sub(prev, rc)


\* C13: a rejected call leaves the board of the game as it was; the board
\* an accepted call returns differs from the board it was made on in the
\* target cell only (empty before, the mover's mark after), apart from
\* the winner of the target sub-board, active_square and overall_winner:
\* the other 80 cells and the winners of the other eight sub-boards are
\* the same.
C13_OneCellChanged ==
  /\ (last.by # "none" /\ last.kind # "Some") => board = prev
  /\ Accepted =>
       /\ At(Sub(prev, last.move.outer).squares, last.move.inner) = None
       /\ At(Sub(board, last.move.outer).squares, last.move.inner) = last.move.player
       /\ \A o \in Squares : \A i \in Squares :
            <<o, i>> # <<last.move.outer, last.move.inner>>
              => At(Sub(board, o).squares, i) = At(Sub(prev, o).squares, i)
       /\ \A o \in Squares :
            o # last.move.outer => Sub(board, o).winner = Sub(prev, o).winner

\* an accepted move that changes all three recomputed fields: the winner
\* of its sub-board, active_square and overall_winner
C13_Witness ==
  /\ Accepted
  /\ last.move.outer # last.move.inner
  /\ Sub(board, last.move.outer).winner # Sub(prev, last.move.outer).winner
  /\ board.active_square # prev.active_square
  /\ board.overall_winner # prev.overall_winner


\* the number of marks on a board
Marks(b) ==
  Cardinality({oi \in Squares \X Squares : At(Sub(b, oi[1]).squares, oi[2]) # None})

\* no call of make_move on b returns a new board
Dead(b) == \A m \in AnyMoves : make_move(b, m).kind # "Some"

\* the board holds one mark per accepted move, 81 at most; an accepted move
\* adds one mark and leaves every mark of the board it was made on in place
MarksGrow ==
  /\ Marks(board) = Len(hist)
  /\ Len(hist) <= 81
  /\ Accepted =>
       /\ Marks(board) = Marks(prev) + 1
       /\ \A o \in Squares : \A i \in Squares :
            At(Sub(prev, o).squares, i) # None
              => At(Sub(board, o).squares, i) = At(Sub(prev, o).squares, i)

\* C21 (specification SpecPlayFair): starting from the empty board every
\* accepted move adds exactly one mark, no mark is removed or changed by a
\* later move, so a game has 81 accepted moves at most, and every game
\* reaches a board on which no move is accepted and stays there.
C21_GameTerminates ==
  /\ []MarksGrow
  /\ <>[]Dead(board)

\* a game that left the record ended without overall winner on a board
\* that accepts no move
C21_Witness ==
  /\ last.by = "play"
  /\ Dead(board)
  /\ board.overall_winner = None
  /\ \E k \in 1 .. Len(hist) : \A s \in Scripts : k > Len(s) \/ hist[k] # s[k]


\* C15 (specification SpecTotal): a call of make_move with any value of
\* Move returns a new board or no result; it never panics.
C15_MakeMoveTotal ==
  last.by # "none" => last.kind \in {"None", "Some"}


(* ------------------------------------------------------------------ *)
(* Properties of the search (specification SpecSearch)                 *)
(* ------------------------------------------------------------------ *)

\* C3: a move returned by search is accepted by make_move on the board
\* that was searched.
C3_ReturnedMoveAccepted ==
  (status = "done" /\ result.kind = "Some") =>
    make_move(searcher.board, result.move).kind = "Some"

\* the moves of player that make_move accepts on b and that win the game
WinningMoves(b, player) ==
  {m \in Moves :
     /\ m.player = player
     /\ make_move(b, m).kind = "Some"
     /\ make_move(b, m).board.overall_winner = player}

\* C5: on a board where a move of player wins the whole game, search
\* returns a winning move with the score i32::MAX.
C5_WinInOneReturned ==
  (status = "done" /\ WinningMoves(searcher.board, searcher.player) # {}) =>
    /\ result.kind = "Some"
    /\ result.move \in WinningMoves(searcher.board, searcher.player)
    /\ result.value = I32_MAX

\* the moves search enumerates
RootMoves == possible_moves(searcher.board, searcher.player)

\* C14: search returns None exactly when possible_moves(player) of the
\* board is empty; when a move is enumerated it returns one of the
\* enumerated moves with a score.
C14_NoneIffNoMoves ==
  status = "done" =>
    /\ result.kind = "None" <=> RootMoves = <<>>
    /\ RootMoves # <<>> =>
         /\ result.kind = "Some"
         /\ \E k \in 1 .. Len(RootMoves) : result.move = RootMoves[k]

\* a search of a drawn board, every sub-board won or full and no overall
\* winner, returned None
C14_Witness ==
  /\ status = "done"
  /\ result.kind = "None"
  /\ searcher.board.overall_winner = None
  /\ \A rc \in Squares : ~Open(Sub(searcher.board, rc))

\* C17 (specification SpecSearch): a call of branch past its cutoff test
\* on a node without overall winner and without a move to enumerate, a
\* drawn final position, returns the heuristic of the node.
C17_DrawScoredByHeuristic ==
  \A j \in 1 .. Len(stack) :
    (stack[j].pc = "loop" /\ stack[j].moves = <<>>
       /\ stack[j].node.overall_winner = None)
      => stack[j].best_eval =
           heuristic(stack[j].node, searcher.player, side(stack[j], searcher.player))

\* the marks a board holds that the board before it does not hold in the
\* same cell
Added(before, after) ==
  {At(Sub(after, oi[1]).squares, oi[2]) :
     oi \in {xy \in Squares \X Squares :
               At(Sub(after, xy[1]).squares, xy[2]) # At(Sub(before, xy[1]).squares, xy[2])}}

\* the mark that moves to a node j plies below the board that is searched:
\* player moves first
Mover(j) == IF j % 2 = 1 THEN searcher.player ELSE Not(searcher.player)

\* the node of the call at position j of the stack is j plies below the
\* board that is searched; the node above it
Parent(j) == IF j = 1 THEN searcher.board ELSE stack[j - 1].node

\* C22 (specification SpecSearch): the tasks of search hold moves of
\* player and call branch with maximizing = false; a call with maximizing
\* = false enumerates moves of the opponent only, one with maximizing =
\* true moves of player only, and each recursive call flips the flag; so
\* the marks along a line alternate starting with player, and maximizing
\* is true exactly at the nodes an even number of plies below the root.
C22_MarksAlternate ==
  status = "running" =>
    /\ \A k \in 1 .. Len(tasks) : tasks[k].move.player = searcher.player
    /\ stack # <<>> =>
         /\ stack[1].maximizing = FALSE
         /\ stack[1].node = make_move(searcher.board, tasks[Running].move).board
    /\ \A j \in 1 .. Len(stack) :
         /\ stack[j].maximizing <=> (j % 2 = 0)
         /\ Added(Parent(j), stack[j].node) = {Mover(j)}
         /\ stack[j].pc # "enter" =>
              \A k \in 1 .. Len(stack[j].moves) :
                stack[j].moves[k].player =
                  (IF stack[j].maximizing THEN searcher.player ELSE Not(searcher.player))
    /\ \A j \in 1 .. Len(stack) - 1 :
         /\ stack[j + 1].maximizing = ~stack[j].maximizing
         /\ stack[j + 1].node =
              make_move(stack[j].node, stack[j].moves[stack[j].idx]).board

\* a line of four plies: a minimizing, a maximizing and a minimizing call
\* in their loops, the innermost with a move to enumerate
C22_Witness ==
  /\ status = "running"
  /\ Len(stack) >= 3
  /\ \A j \in 1 .. 3 : stack[j].pc = "loop"
  /\ stack[3].idx <= Len(stack[3].moves)

(* ------------------------------------------------------------------ *)
(* Properties of branch (specification SpecBranch)                     *)
(* ------------------------------------------------------------------ *)

RECURSIVE minimax(_, _, _, _)
RECURSIVE minimax_from(_, _, _, _, _)
\* plain minimax to the given depth, without a window: the evaluator and
\* the enumeration of moves are those of branch
minimax(node, depth, maximizing, player) ==
  IF depth = 0 \/ node.overall_winner # None
  THEN heuristic(node, player, IF maximizing THEN player ELSE Not(player))
  ELSE minimax_from(node, depth, maximizing, player, 1)

\* the best value over the moves k.. of the node
minimax_from(node, depth, maximizing, player, k) ==
  LET ms == possible_moves(node, IF maximizing THEN player ELSE Not(player))
  IN IF k > Len(ms) THEN (IF maximizing THEN I32_MIN ELSE I32_MAX)
     ELSE LET r == make_move(node, ms[k])
              rest == minimax_from(node, depth, maximizing, player, k + 1)
          IN IF r.kind # "Some" THEN rest
             ELSE IF maximizing
                  THEN Max(minimax(r.board, depth - 1, FALSE, player), rest)
                  ELSE Min(minimax(r.board, depth - 1, TRUE, player), rest)

\* the call of branch at position j of the stack is about to return its
\* best_eval
Returning(j) ==
  /\ j \in 1 .. Len(stack)
  /\ j = Len(stack)
  /\ stack[j].pc \in {"loop", "break"}
  /\ (stack[j].pc = "break" \/ stack[j].idx > Len(stack[j].moves))

\* C16: while the time budget is not exceeded, a call of branch with the
\* window (i32::MIN, i32::MAX) returns the value of plain minimax to the
\* same depth.
C16_PruningKeepsValue ==
  (status = "running" /\ ~expired /\ Returning(1)) =>
    stack[1].best_eval =
      minimax(stack[1].node, stack[1].depth, stack[1].maximizing, searcher.player)

\* an inner call breaks out of its loop on a bound that is no win or loss,
\* with moves left unsearched
C16_Witness ==
  /\ status = "running"
  /\ ~expired
  /\ Len(stack) >= 2
  /\ stack[Len(stack)].pc = "break"
  /\ stack[Len(stack)].idx <= Len(stack[Len(stack)].moves)
  /\ stack[Len(stack)].best_eval \notin {I32_MIN, I32_MAX}

\* the depths of the calls of branch in progress: never below 0, one less
\* per level and one more mark on the node, and a call with depth 0 is the
\* innermost one and has not gone past its cutoff test
DepthsDescend ==
  /\ \A j \in 1 .. Len(stack) :
       /\ stack[j].depth \in 0 .. MAX_DEPTH - 1
       /\ stack[j].depth = 0 => (j = Len(stack) /\ stack[j].pc = "enter")
       /\ Marks(stack[j].node) = Marks(stack[1].node) + (j - 1)
  /\ \A j \in 1 .. Len(stack) - 1 : stack[j + 1].depth = stack[j].depth - 1
  /\ Len(stack) <= MAX_DEPTH

\* C18 (specification SpecBranchFair): every recursive call of branch has
\* the depth of its caller less one, no depth falls below 0, a call with
\* depth 0 does not recurse, no line is followed for more than MAX_DEPTH
\* plies, and a search that was started ends, also when the time budget
\* is never exceeded.
C18_SearchTerminates ==
  /\ []DepthsDescend
  /\ (status = "running") ~> (status = "done")

\* a call with depth 0 on a node without winner that has moves, before the
\* time budget is exceeded
C18_Witness ==
  /\ status = "running"
  /\ ~expired
  /\ Len(stack) >= 2
  /\ stack[Len(stack)].depth = 0
  /\ stack[Len(stack)].pc = "enter"
  /\ stack[Len(stack)].node.overall_winner = None
  /\ possible_moves(stack[Len(stack)].node,
                    side(stack[Len(stack)], searcher.player)) # <<>>

\* the absolute value of an integer
Abs(x) == IF x < 0 THEN 0 - x ELSE x

\* the weight of the control term of a cell: centre 10, edge 5, corner 2
Weight(rc) ==
  IF rc = <<1, 1>> THEN 10 ELSE IF (rc[1] + rc[2]) % 2 = 1 THEN 5 ELSE 2

\* the sum of the amounts, taken without sign, that score_inner adds to or
\* subtracts from the score for one grid of cells
InnerMagnitude(ib, score_threats) ==
  IF ib.winner # None THEN 1000
  ELSE (IF score_threats
        THEN 100 * threats(ib.squares, "X") + 100 * threats(ib.squares, "O")
        ELSE 0)
       + Weight(<<1, 1>>) * Count(ib.squares[1][1] # None)
       + Weight(<<0, 1>>) * Count(ib.squares[0][1] # None)
       + Weight(<<1, 0>>) * Count(ib.squares[1][0] # None)
       + Weight(<<1, 2>>) * Count(ib.squares[1][2] # None)
       + Weight(<<2, 1>>) * Count(ib.squares[2][1] # None)
       + Weight(<<0, 0>>) * Count(ib.squares[0][0] # None)
       + Weight(<<0, 2>>) * Count(ib.squares[0][2] # None)
       + Weight(<<2, 0>>) * Count(ib.squares[2][0] # None)
       + Weight(<<2, 2>>) * Count(ib.squares[2][2] # None)

RECURSIVE SumMagnitude(_, _)
\* InnerMagnitude summed over the sub-boards from the k-th on
SumMagnitude(b, k) ==
  IF k > 9 THEN 0
  ELSE InnerMagnitude(Sub(b, CellOrder[k]), TRUE) + SumMagnitude(b, k + 1)

\* a bound of every value the variable score of heuristic takes on a board
\* without winner: each amount added or subtracted, taken without sign
Magnitude(b) ==
  5 * (InnerMagnitude(meta_board(b), FALSE)
       + 100 * threats(meta_board_with_draws(b), "X")
       + 100 * threats(meta_board_with_draws(b), "O"))
  + SumMagnitude(b, 1)
  + 200

\* the terminal rule and the range of the score on board b
ScoreRanked(b) ==
  \A p \in Mark : \A n \in Mark :
    LET h == heuristic(b, p, n)
    IN /\ h = I32_MAX <=> b.overall_winner = p
       /\ h = I32_MIN <=> b.overall_winner = Not(p)
       /\ b.overall_winner = None =>
            /\ Magnitude(b) < I32_MAX
            /\ Abs(h) <= Magnitude(b)
            /\ I32_MIN < h /\ h < I32_MAX

\* C24: heuristic returns i32::MAX exactly for a board won by player and
\* i32::MIN exactly for a board won by the opponent; for a board without
\* overall winner no value of the score leaves the range of i32 and the
\* result lies strictly between i32::MIN and i32::MAX.
C24_ScoreRanksDecidedGames ==
  /\ ScoreRanked(board)
  /\ stack # <<>> => ScoreRanked(stack[Len(stack)].node)

\* a call of branch is about to return the heuristic of a node the
\* opponent of player has won
C24_Witness ==
  /\ status = "running"
  /\ stack # <<>>
  /\ stack[Len(stack)].pc = "enter"
  /\ stack[Len(stack)].node.overall_winner = Not(searcher.player)

\* the score of b for one player is the negated score for the other
ZeroSum(b) ==
  b.overall_winner = None =>
    \A p \in Mark : \A n \in Mark :
      heuristic(b, p, n) = 0 - heuristic(b, Not(p), n)

\* C27: on a board without overall winner, for either mark as next_mark,
\* heuristic(board, p, next) = -heuristic(board, opponent of p, next).
C27_ZeroSum ==
  /\ ZeroSum(board)
  /\ stack # <<>> => ZeroSum(stack[Len(stack)].node)

\* a call of branch is about to return the heuristic of a node without
\* winner and without active square, on which both marks have won a
\* sub-board and hold cells of open sub-boards, and the score is not 0
C27_Witness ==
  /\ status = "running"
  /\ stack # <<>>
  /\ stack[Len(stack)].pc = "enter"
  /\ stack[Len(stack)].depth = 0
  /\ LET b == stack[Len(stack)].node
     IN /\ b.overall_winner = None
        /\ b.active_square = NoSquare
        /\ \A m \in Mark :
             /\ \E rc \in Squares : Sub(b, rc).winner = m
             /\ \E rc \in Squares : \E i \in Squares :
                  Open(Sub(b, rc)) /\ At(Sub(b, rc).squares, i) = m
        /\ heuristic(b, searcher.player, "X") # 0

\* the lines of the grid of sub-boards on which m has won two sub-boards
\* and the third can still be played
MetaThreats(b, m) ==
  {l \in Lines :
     \E rc \in l : Open(Sub(b, rc)) /\ \A x \in l \ {rc} : Sub(b, x).winner = m}

\* the lines on which m has won two sub-boards and the third is full
\* without winner or won by the other mark
BlockedLines(b, m) ==
  {l \in Lines :
     \E rc \in l : /\ ~Open(Sub(b, rc))
                   /\ Sub(b, rc).winner # m
                   /\ \A x \in l \ {rc} : Sub(b, x).winner = m}

\* the threat term of the grid of sub-boards on board b
MetaThreatTerm(b) ==
  /\ \A m \in Mark :
       threats(meta_board_with_draws(b), m) = Cardinality(MetaThreats(b, m))
  /\ b.overall_winner = None =>
       \A p \in Mark : \A n \in Mark :
         heuristic(b, p, n)
           = 500 * Cardinality(MetaThreats(b, p))
             - 500 * Cardinality(MetaThreats(b, Not(p)))
             + 5 * score_inner(meta_board(b), p, FALSE)
             + sum_inner(b, p, 1)
             + (IF b.active_square # NoSquare THEN 0
                ELSE IF n = p THEN 200 ELSE 0 - 200)

\* C28: threats counts a row, column or diagonal of the grid of
\* sub-boards for mark m exactly when m has won two of its sub-boards and
\* the third has no winner and an empty cell; a line whose third
\* sub-board is full without winner or won by the other mark is counted
\* for nobody; every counted line adds 500 to the score when m is player
\* and subtracts 500 when m is the opponent.
C28_MetaThreats ==
  /\ MetaThreatTerm(board)
  /\ stack # <<>> => MetaThreatTerm(stack[Len(stack)].node)

\* a call of branch is about to return the heuristic of a node on which a
\* mark has one line with the third sub-board open and another with the
\* third sub-board full without winner
C28_Witness ==
  /\ status = "running"
  /\ stack # <<>>
  /\ stack[Len(stack)].pc = "enter"
  /\ LET b == stack[Len(stack)].node
     IN /\ b.overall_winner = None
        /\ \E m \in Mark :
             /\ MetaThreats(b, m) # {}
             /\ \E l \in BlockedLines(b, m) : \E rc \in l : Sub(b, rc).winner = None

\* the innermost call of branch, and the call that made it
Top == stack[Len(stack)]
Caller == stack[Len(stack) - 1]

\* the step of the innermost call from its entry: what the call does with
\* the cutoff conditions as they are at that moment
EntryStep ==
  LET h == heuristic(Top.node, searcher.player, side(Top, searcher.player))
  IN IF Top.depth = 0 \/ Top.node.overall_winner # None \/ expired
     THEN \* it returns the heuristic of its node and enumerates nothing
          /\ Len(stack') = Len(stack) - 1
          /\ Len(stack) = 1 =>
               (tasks'[Running].state = "done" /\ tasks'[Running].value = h)
          /\ Len(stack) > 1 =>
               /\ stack'[Len(stack')].idx = Caller.idx + 1
               /\ stack'[Len(stack')].best_eval \in {Caller.best_eval, h}
     ELSE \* it goes on to enumerate the moves of its node
          /\ Len(stack') = Len(stack)
          /\ stack'[Len(stack')].pc = "loop"
          /\ stack'[Len(stack')].moves =
               possible_moves(Top.node, side(Top, searcher.player))

\* the score of b for player with an active square set: no tempo term
Positional(b, player) ==
  heuristic([b EXCEPT !.active_square = <<0, 0>>], player, player)

\* the tempo term on board b when the side to move is player (mine) or
\* the opponent
Tempo(b, mine) ==
  IF b.active_square # NoSquare THEN 0 ELSE IF mine THEN 200 ELSE 0 - 200

\* active_square and next_mark change the score of b by the tempo term only
TempoTerm(b) ==
  b.overall_winner = None =>
    \A p \in Mark : \A n \in Mark :
      heuristic(b, p, n) = Positional(b, p) + Tempo(b, n = p)

\* the mark to move on b by the count of the marks, X moving first
Turn(b) ==
  IF Cardinality({oi \in Squares \X Squares : At(Sub(b, oi[1]).squares, oi[2]) = "X"})
       = Cardinality({oi \in Squares \X Squares : At(Sub(b, oi[1]).squares, oi[2]) = "O"})
  THEN "X" ELSE "O"

\* the innermost call returns from its cutoff test on a node without
\* winner: the value that reaches its caller holds the tempo term of the
\* call's maximizing flag
TempoStep ==
  (/\ status = "running" /\ stack # <<>> /\ Top.pc = "enter"
   /\ Top.node.overall_winner = None
   /\ Len(stack') < Len(stack))
    => LET v == Positional(Top.node, searcher.player) + Tempo(Top.node, Top.maximizing)
       IN IF Len(stack) = 1
          THEN tasks'[Running].value = v
          ELSE stack'[Len(stack')].best_eval =
                 (IF Caller.maximizing THEN Max(Caller.best_eval, v)
                  ELSE Min(Caller.best_eval, v))

\* C29: heuristic adds the tempo term exactly when active_square of the
\* evaluated board is None, +200 when next_mark is player and -200 when
\* it is the opponent, and nothing when an active square is set; the
\* next_mark of an evaluation in branch is player when the call's
\* maximizing flag is true and the opponent when it is false, whatever
\* the marks on the board say about the turn.
C29_TempoBonus ==
  /\ [](TempoTerm(board) /\ (stack # <<>> => TempoTerm(Top.node)))
  /\ [][TempoStep]_vars

\* a maximizing call is about to return the heuristic of a node without
\* winner and without active square on which, by the count of the marks,
\* the opponent of player is to move
C29_Witness ==
  /\ status = "running"
  /\ ~expired
  /\ stack # <<>>
  /\ Top.pc = "enter"
  /\ Top.depth = 0
  /\ Top.maximizing
  /\ Top.node.overall_winner = None
  /\ Top.node.active_square = NoSquare
  /\ Turn(Top.node) = Not(searcher.player)
  /\ Len(stack) >= 2

\* C20: a call of branch returns the heuristic of its node without
\* enumerating a move exactly when at its entry depth = 0, or the node has
\* an overall winner, or the time budget is exceeded; the budget stays
\* exceeded for the rest of the search, so a call entered after that
\* never reaches its loop and makes no recursive call.
C20_CutoffRule ==
  [][ /\ (status = "running" /\ stack # <<>> /\ Top.pc = "enter" /\ stack' # stack)
          => EntryStep
      /\ (status = "running" /\ status' = "running" /\ expired) => expired'
      /\ (status = "running" /\ expired /\ stack # <<>> /\ Top.pc = "enter")
          => Len(stack') <= Len(stack)
    ]_vars

\* a call below the outermost one is entered after the budget was exceeded,
\* with depth left, on a node without winner that has moves
C20_Witness ==
  /\ status = "running"
  /\ expired
  /\ Len(stack) >= 2
  /\ Top.pc = "enter"
  /\ Top.depth > 0
  /\ Top.node.overall_winner = None
  /\ possible_moves(Top.node, side(Top, searcher.player)) # <<>>

(* ------------------------------------------------------------------ *)
(* Properties of the tasks of search (specification SpecSearch)       *)
(* ------------------------------------------------------------------ *)

\* the value of the task of move m when the time budget is not exceeded
TaskValue(m) ==
  LET r == make_move(searcher.board, m)
  IN IF r.kind # "Some" THEN I32_MIN
     ELSE minimax(r.board, MAX_DEPTH - 1, FALSE, searcher.player)

\* the tasks of a search are the moves of possible_moves, one each and in
\* their order; a result exists only when every task has finished, its
\* score is the largest of the tasks' scores and its move is a task's move
\* with that score; without the time budget exceeded every task's score
\* is the value of its move, whatever the order the tasks ran in
TasksComplete ==
  status \in {"running", "done"} =>
    /\ Len(tasks) = Len(RootMoves)
    /\ \A k \in 1 .. Len(tasks) : tasks[k].move = RootMoves[k]
    /\ status = "running" => result = NoMove
    /\ status = "done" =>
         /\ \A k \in 1 .. Len(tasks) : tasks[k].state = "done"
         /\ \A k \in 1 .. Len(tasks) : tasks[k].value <= result.value
         /\ Len(tasks) > 0 =>
              \E k \in 1 .. Len(tasks) :
                result.move = tasks[k].move /\ result.value = tasks[k].value
         /\ ~expired =>
              \A k \in 1 .. Len(tasks) : tasks[k].value = TaskValue(tasks[k].move)

\* a step of the search changes the entry of one task at most, never one
\* that has finished, and no task goes back to an earlier state
TasksIndependent ==
  (status = "running" /\ status' \in {"running", "done"}) =>
    /\ Len(tasks') = Len(tasks)
    /\ Cardinality({k \in 1 .. Len(tasks) : tasks'[k] # tasks[k]}) <= 1
    /\ \A k \in 1 .. Len(tasks) :
         /\ tasks[k].state = "done" => tasks'[k] = tasks[k]
         /\ tasks[k].state = "running" => tasks'[k].state \in {"running", "done"}
         /\ tasks'[k].move = tasks[k].move

\* C19 (specification SpecSearch): search runs one task per move of
\* possible_moves(player); none is skipped or cancelled, also after the
\* time budget is exceeded; the result is produced when all tasks have
\* finished and its score is the maximum of the tasks' scores in every
\* order of running them; a task changes no other task's entry.
C19_AllTasksReduced ==
  /\ []TasksComplete
  /\ [][TasksIndependent]_vars

\* a search of three moves or more ended after the time budget was
\* exceeded, with tasks of different scores
C19_Witness ==
  /\ status = "done"
  /\ expired
  /\ Len(tasks) >= 3
  /\ \E j \in 1 .. Len(tasks) : \E k \in 1 .. Len(tasks) :
       tasks[j].value < tasks[k].value

(* ------------------------------------------------------------------ *)
(* Properties of repeated searches (specification SpecAgain)           *)
(* ------------------------------------------------------------------ *)

\* what search returns for a board and a player when every task is valued
\* by plain minimax from its move, computed from the two arguments alone
Reference(b, p) ==
  LET ms == possible_moves(b, p)
  IN search_result(
       [k \in 1 .. Len(ms) |->
          [move |-> ms[k], state |-> "done",
           value |-> IF make_move(b, ms[k]).kind # "Some" THEN I32_MIN
                     ELSE minimax(make_move(b, ms[k]).board, MAX_DEPTH - 1, FALSE, p)]])

\* the table holds no entry; a search that ended within the time budget
\* returned the score given by its board and its player, and the score of
\* the call before it with the same arguments if that one ended within
\* the budget too
NoCache ==
  /\ ttable.entries = {}
  /\ status # "idle" => ttable.init
  /\ (status = "done" /\ ~expired) =>
       /\ result.kind = Reference(searcher.board, searcher.player).kind
       /\ result.value = Reference(searcher.board, searcher.player).value
       /\ (earlier.again /\ ~earlier.expired) =>
            /\ result.kind = earlier.result.kind
            /\ result.value = earlier.result.value

\* a step taken while a call of branch is in progress leaves the table as
\* it is
TableUntouched == stack # <<>> => ttable' = ttable

\* C23 (specification SpecAgain): branch neither reads nor writes the
\* transposition table, so the score of a search in which no call of
\* branch met the time budget is given by the board and the player alone:
\* the same in every repetition and after any searches made before it.
C23_NoCaching ==
  /\ []NoCache
  /\ [][TableUntouched]_vars

\* a search ended within the time budget with another score than the call
\* before it, which had the same arguments and exceeded the budget
C23_Witness ==
  /\ status = "done"
  /\ ~expired
  /\ earlier.again
  /\ earlier.expired
  /\ result.kind = "Some"
  /\ earlier.result.value # result.value

(* ------------------------------------------------------------------ *)
(* Properties of the App and its worker (specification SpecApp)        *)
(* ------------------------------------------------------------------ *)

\* the requests on their way: in the request channel, with the worker, or
\* answered in the response channel
Outstanding ==
  Len(app.req) + Count(app.worker.pc = "busy") + Len(app.resp)

\* at most one request is on its way, and thinking says whether one is;
\* no channel holds more than its capacity, the UI thread is not blocked
\* in a send, and the worker never has a response to send while the
\* response channel is full
SingleFlight ==
  /\ Outstanding <= 1
  /\ app.thinking <=> Outstanding = 1
  /\ Len(app.req) <= ChannelCap
  /\ Len(app.resp) <= ChannelCap
  /\ app.ui # "blocked"
  /\ app.worker.pc = "busy" => app.resp = <<>>

\* a step that puts a request into the channel starts with thinking false,
\* or takes the response to the request before it out of its channel
SendRule ==
  Len(app'.req) > Len(app.req) =>
    \/ ~app.thinking
    \/ app.resp # <<>> /\ app'.resp = <<>>

\* C25: at most one search request is outstanding at any time: a request
\* is sent only when thinking is false or right after the response to the
\* request before it was received, thinking is true exactly while a
\* request is outstanding, so no send on the request channel or on the
\* response channel, both of capacity 1, ever blocks and the UI thread
\* and the worker thread cannot deadlock.
C25_SingleFlight ==
  /\ []SingleFlight
  /\ [][SendRule]_vars

\* the request for the computer's move, sent by the poll that received
\* the response of Gioca per me and so showed no modal, waits in the
\* request channel
C25_Witness ==
  /\ app.pc = "click"
  /\ app.thinking
  /\ ~app.shown
  /\ app.req # <<>>
  /\ Head(app.req).player = COMPUTER_MARK
  /\ app.states # <<>>
  /\ app.states[Len(app.states)].last_player_move.kind = "Some"

\* the assertion of the undo handler held, and while thinking the history
\* is the one the request on its way was sent with
HistoryKept ==
  /\ app.ui # "assert"
  /\ app.thinking => app.states = app.sent

\* a step that starts with thinking true and changes the history is the
\* poll that takes the response out of its channel
HistoryFrozen ==
  (app.thinking /\ app'.states # app.states) =>
    (app.pc = "poll" /\ app.resp # <<>> /\ app'.resp = <<>>)

\* C26: while a search request is outstanding (thinking is true) no UI
\* action (undo, random game, reset, load, click, play for me) changes the
\* history of game states, so the assertion !self.thinking of the undo
\* handler never fails and every response is applied to the board that
\* was sent with its request.
C26_HistoryFrozen ==
  /\ []HistoryKept
  /\ [][HistoryFrozen]_vars

====
